---- MODULE Spec2Model ----
(***************************************************************************)
(* Inventory ledger and sale-transaction engine of the retail POS server:  *)
(* the two IStorage implementations (MemStorage, DatabaseStorage) and the  *)
(* express routes that call them.                                          *)
(*                                                                         *)
(* Money is a decimal string with two fraction digits in the source; it is *)
(* represented here by its value in cents.  Identifiers (randomUUID /      *)
(* gen_random_uuid) are represented by the insertion index of the row.     *)
(***************************************************************************)
EXTENDS Integers, Sequences, FiniteSets, TLC

\* ------------------------------------------------------------------ bounds
MaxOps == 2
MaxNow == 1
MaxLines == 2
MaxQty == 3
InitQty == 2
UnitCost == 4000
MaxLimit == 2
MaxDays == 2
MaxDeskOps == 2
MaxCartQty == 3
MaxCalls == 2

\* --------------------------------------------------------------- constants
Undefined == "undefined"
Null == "null"

Impls == {"mem", "db"}
Users == {"admin", "manager", "cashier"}
ProductIds == {"p1", "p2"}
MissingProduct == "p0"
AllProductIds == ProductIds \cup {MissingProduct}
CustomerIds == {"c1"}
MissingCustomer == "c0"
CategoryIds == {"cat1", "cat2"}
MissingCategory == "cat0"
SupplierIds == {"s1", "s2"}
MissingSupplier == "s0"
\* Sample data of MemStorage.initializeSampleData, money in cents.
UnitPrice == 5000
InitCost == 3500
InitSpent == 475000
InitPoints == 450
SampleSubtotal == 13000
SampleTax == 1105
SampleTotal == 14105
\* `parseInt(req.query.limit) || 5`
DefaultLimit == 5
\* `parseInt(req.query.days) || 7`
DefaultDays == 7
\* `24 * 60 * 60 * 1000`
MsPerDay == 86400000
\* sellingPrice of the second sample product, in cents
SecondPrice == 3000

VARIABLES
    impl,               \* which IStorage implementation `storage` is
    user,               \* req.user.id: the user the caller's token was issued to
    now,                \* Date.now()
    categories,         \* id -> [name, slug]
    suppliers,          \* id -> [name]
    products,           \* id -> [sku, quantity, costPrice, trackStock, minStockLevel,
                        \*        categoryId, supplierId]
    customers,          \* id -> [totalSpent, loyaltyPoints]
    sales,              \* rows in insertion order; the id is the index
    saleItems,
    stockMovements,
    returns,
    purchaseOrders,
    purchaseOrderItems,
    last,               \* the last completed request: route, input, response, store before it
    ops,                \* number of completed requests
    reqs,               \* in-flight requests of the interleaved specification
    pos,                \* the POS page's state: cart, selectedCustomer, paymentMethod
    twin                \* a MemStorage and a DatabaseStorage given the same calls

storeVars == <<categories, suppliers, products, customers, sales, saleItems,
               stockMovements, returns, purchaseOrders, purchaseOrderItems>>
vars == <<impl, user, now, categories, suppliers, products, customers, sales,
          saleItems, stockMovements, returns, purchaseOrders, purchaseOrderItems,
          last, ops, reqs, pos, twin>>

\* The rows of the store, as one value.
Store ==
    [categories |-> categories, suppliers |-> suppliers,
     products |-> products, customers |-> customers, sales |-> sales,
     saleItems |-> saleItems, stockMovements |-> stockMovements,
     returns |-> returns, purchaseOrders |-> purchaseOrders,
     purchaseOrderItems |-> purchaseOrderItems]

Commit(st) ==
    /\ categories' = st.categories
    /\ suppliers' = st.suppliers
    /\ products' = st.products
    /\ customers' = st.customers
    /\ sales' = st.sales
    /\ saleItems' = st.saleItems
    /\ stockMovements' = st.stockMovements
    /\ returns' = st.returns
    /\ purchaseOrders' = st.purchaseOrders
    /\ purchaseOrderItems' = st.purchaseOrderItems

\* ------------------------------------------------------------ conversions
\* parseFloat of a two-digit decimal string, in cents.
parseFloat(s) == s
\* Number.prototype.toFixed(2), in cents.
toFixed2(x) == x
\* Math.floor of an amount of cents, in whole currency units.
MathFloor(x) == x \div 100

\* reduce((sum, x) => sum + x, 0)
RECURSIVE SumSeq(_)
SumSeq(q) == IF q = <<>> THEN 0 ELSE Head(q) + SumSeq(Tail(q))

\* { ...row, [k]: v }
With(row, k, v) == (k :> v) @@ row

\* randomUUID() / gen_random_uuid(): a fresh identifier for the n-th row.
NewId(n) == ToString(n)

\* randomUUID() / gen_random_uuid() for a table keyed by id: an identifier
\* that is not a key of the table.
FreshId(used) ==
    NewId(CHOOSE k \in 1..(Cardinality(used) + 1) :
              /\ NewId(k) \notin used
              /\ \A j \in 1..(k - 1) : NewId(j) \in used)

\* The table without the row of key id.
Without(table, id) == [k \in DOMAIN table \ {id} |-> table[k]]

StockMovementRow(productId, movementType, quantity, reason, reference, userId) ==
    [productId |-> productId, movementType |-> movementType, quantity |-> quantity,
     reason |-> reason, reference |-> reference, userId |-> userId]

\* --------------------------------------------------------------- MemStorage
MemStorage_updateProductStock(st, id, quantity, movementType, reason, userId) ==
    IF id \notin DOMAIN st.products
    THEN [ok |-> FALSE, st |-> st]
    ELSE [ok |-> TRUE,
          st |-> [st EXCEPT
                    !.products[id].quantity = @ + quantity,
                    !.stockMovements =
                        IF userId # Undefined
                        THEN Append(@, StockMovementRow(id, movementType, quantity,
                                                        reason, Undefined, userId))
                        ELSE @]]

\* this.<table>.set(id, { ...insertRow, id }) with a fresh id
MemStorage_insert(table, insertRow) == (FreshId(DOMAIN table) :> insertRow) @@ table

MemStorage_createCategory(st, insertCategory) ==
    [ok |-> TRUE, threw |-> FALSE,
     st |-> [st EXCEPT !.categories = MemStorage_insert(@, insertCategory)]]

\* { ...category, ...categoryData }
MemStorage_updateCategory(st, id, categoryData) ==
    IF id \notin DOMAIN st.categories
    THEN [ok |-> FALSE, threw |-> FALSE, st |-> st]
    ELSE [ok |-> TRUE, threw |-> FALSE,
          st |-> [st EXCEPT !.categories[id] = categoryData @@ @]]

MemStorage_createSupplier(st, insertSupplier) ==
    [ok |-> TRUE, threw |-> FALSE,
     st |-> [st EXCEPT !.suppliers = MemStorage_insert(@, insertSupplier)]]

\* { ...supplier, ...supplierData }
MemStorage_updateSupplier(st, id, supplierData) ==
    IF id \notin DOMAIN st.suppliers
    THEN [ok |-> FALSE, threw |-> FALSE, st |-> st]
    ELSE [ok |-> TRUE, threw |-> FALSE,
          st |-> [st EXCEPT !.suppliers[id] = supplierData @@ @]]

MemStorage_createProduct(st, insertProduct) ==
    [ok |-> TRUE, threw |-> FALSE,
     st |-> [st EXCEPT !.products = MemStorage_insert(@, insertProduct)]]

\* { ...product, ...productData, updatedAt }
MemStorage_updateProduct(st, id, productData) ==
    IF id \notin DOMAIN st.products
    THEN [ok |-> FALSE, threw |-> FALSE, st |-> st]
    ELSE [ok |-> TRUE, threw |-> FALSE,
          st |-> [st EXCEPT !.products[id] = productData @@ @]]

\* Map.prototype.delete: true when the key was present
MemStorage_deleteCategory(st, id) ==
    [ok |-> id \in DOMAIN st.categories, threw |-> FALSE, st |-> [st EXCEPT !.categories = Without(@, id)]]

MemStorage_deleteSupplier(st, id) ==
    [ok |-> id \in DOMAIN st.suppliers, threw |-> FALSE, st |-> [st EXCEPT !.suppliers = Without(@, id)]]

MemStorage_deleteProduct(st, id) ==
    [ok |-> id \in DOMAIN st.products, threw |-> FALSE,
     st |-> [st EXCEPT !.products = Without(@, id)]]

MemStorage_deleteCustomer(st, id) ==
    [ok |-> id \in DOMAIN st.customers, threw |-> FALSE,
     st |-> [st EXCEPT !.customers = Without(@, id)]]

\* products.filter(product => product.trackStock && product.quantity <= product.minStockLevel):
\* the ids of the products returned
MemStorage_getLowStockProducts(st) ==
    {p \in DOMAIN st.products :
        st.products[p].trackStock /\ st.products[p].quantity <= st.products[p].minStockLevel}

\* getDashboardMetrics: lowStockCount is lowStockProducts.length
MemStorage_getDashboardMetrics(st) ==
    [totalProducts |-> Cardinality(DOMAIN st.products),
     lowStockCount |-> Cardinality(MemStorage_getLowStockProducts(st)),
     totalCustomers |-> Cardinality(DOMAIN st.customers)]

\* The `for (const item of this.saleItems.values())` loop of getTopProducts:
\* productSales as the sequence of its entries, in insertion order.
RECURSIVE MemStorage_getTopProducts_loop(_, _, _)
MemStorage_getTopProducts_loop(productSales, items, i) ==
    IF i > Len(items) THEN productSales
    ELSE LET item == items[i]
             at == {k \in 1..Len(productSales) : productSales[k].product = item.productId}
             next ==
                 IF at = {}
                 THEN Append(productSales,
                             [product |-> item.productId, totalSold |-> item.quantity,
                              revenue |-> parseFloat(item.totalPrice)])
                 ELSE [k \in 1..Len(productSales) |->
                          IF k \in at
                          THEN [productSales[k] EXCEPT
                                   !.totalSold = @ + item.quantity,
                                   !.revenue = @ + parseFloat(item.totalPrice)]
                          ELSE productSales[k]]
         IN MemStorage_getTopProducts_loop(next, items, i + 1)

\* Array.prototype.sort((a, b) => b.revenue - a.revenue), which is stable:
\* entry e goes behind every entry whose revenue is not smaller.
SortInsert(sorted, e) ==
    LET n == Cardinality({k \in 1..Len(sorted) : sorted[k].revenue >= e.revenue})
    IN SubSeq(sorted, 1, n) \o <<e>> \o SubSeq(sorted, n + 1, Len(sorted))

RECURSIVE SortByRevenue(_, _)
SortByRevenue(sorted, rest) ==
    IF rest = <<>> THEN sorted
    ELSE SortByRevenue(SortInsert(sorted, Head(rest)), Tail(rest))

\* Array.prototype.slice(0, limit), for limit >= 0
Slice(q, limit) == SubSeq(q, 1, IF limit < Len(q) THEN limit ELSE Len(q))

MemStorage_getTopProducts(st, limit) ==
    LET productSales == MemStorage_getTopProducts_loop(<<>>, st.saleItems, 1)
        found == SelectSeq(productSales, LAMBDA e : e.product \in DOMAIN st.products)
    IN Slice(SortByRevenue(<<>>, found), limit)

\* date.toISOString().split('T')[0]: the UTC calendar day of an instant, as
\* the number of the day.
DateKey(t) == t \div MsPerDay

\* getSalesData: entry i of the result, for the day of startDate + i days;
\* dailyData.get(dateKey) sums the sales in range created on that day.
MemStorage_getSalesData_entry(st, startDate, endDate, i) ==
    LET dateKey == DateKey(startDate + i * MsPerDay)
        onDay == SelectSeq(st.sales,
                     LAMBDA sale : /\ sale.createdAt >= startDate
                                   /\ sale.createdAt <= endDate
                                   /\ DateKey(sale.createdAt) = dateKey)
    IN [date |-> dateKey,
        sales |-> SumSeq([k \in 1..Len(onDay) |-> parseFloat(onDay[k].total)]),
        transactions |-> Len(onDay)]

MemStorage_getSalesData(st, days) ==
    LET endDate == now
        startDate == endDate - days * MsPerDay
    IN [k \in 1..days |-> MemStorage_getSalesData_entry(st, startDate, endDate, k - 1)]

\* One turn of the `for (const itemData of items)` loop of createSale.
MemStorage_createSale_item(st, sale, itemData) ==
    LET saleItem == With(itemData, "saleId", sale.id)
        st1 == [st EXCEPT !.saleItems = Append(@, saleItem)]
    IN MemStorage_updateProductStock(st1, saleItem.productId, 0 - saleItem.quantity,
                                     "sale", <<"Sale ", sale.invoiceNumber>>,
                                     sale.userId).st

RECURSIVE MemStorage_createSale_loop(_, _, _, _)
MemStorage_createSale_loop(st, sale, items, i) ==
    IF i > Len(items) THEN st
    ELSE MemStorage_createSale_loop(MemStorage_createSale_item(st, sale, items[i]),
                                    sale, items, i + 1)

\* The `if (sale.customerId)` block of createSale.
MemStorage_createSale_customer(st, sale) ==
    IF sale.customerId \notin {Null, Undefined} /\ sale.customerId \in DOMAIN st.customers
    THEN LET customer == st.customers[sale.customerId]
             totalSpent == parseFloat(customer.totalSpent) + parseFloat(sale.total)
             loyaltyPoints == customer.loyaltyPoints + MathFloor(parseFloat(sale.total))
         IN [st EXCEPT !.customers[sale.customerId] =
                 [customer EXCEPT !.totalSpent = toFixed2(totalSpent),
                                  !.loyaltyPoints = loyaltyPoints]]
    ELSE st

MemStorage_createSale_header(st, insertSale) ==
    LET sale == With(With(insertSale, "id", NewId(Len(st.sales) + 1)), "createdAt", now)
    IN [sale |-> sale, st |-> [st EXCEPT !.sales = Append(@, sale)]]

MemStorage_createSale(st, insertSale, items) ==
    LET h == MemStorage_createSale_header(st, insertSale)
        st2 == MemStorage_createSale_loop(h.st, h.sale, items, 1)
    IN [ok |-> TRUE, sale |-> h.sale,
        st |-> MemStorage_createSale_customer(st2, h.sale)]

MemStorage_createReturn(st, insertReturn) ==
    LET returnItem == With(insertReturn, "id", NewId(Len(st.returns) + 1))
        st1 == [st EXCEPT !.returns = Append(@, returnItem)]
    IN [ok |-> TRUE,
        st |-> MemStorage_updateProductStock(st1, returnItem.productId,
                   returnItem.quantity, "return", <<"Return: ", returnItem.reason>>,
                   returnItem.userId).st]

MemStorage_createPurchaseOrder(st, insertOrder, items) ==
    LET id == NewId(Cardinality(DOMAIN st.purchaseOrders) + 1)
        order == With(With(insertOrder, "id", id), "receivedAt", Null)
    IN [ok |-> TRUE,
        st |-> [st EXCEPT
                  !.purchaseOrders = (id :> order) @@ @,
                  !.purchaseOrderItems =
                      @ \o [k \in 1..Len(items) |->
                               With(items[k], "purchaseOrderId", id)]]]

\* One turn of the `for (const item of orderItems)` loop of receivePurchaseOrder.
MemStorage_receivePurchaseOrder_item(st, order, item, userId) ==
    LET st1 == MemStorage_updateProductStock(st, item.productId, item.quantity,
                   "purchase", <<"Purchase Order ", order.orderNumber>>, userId).st
    IN IF item.productId \in DOMAIN st1.products
       THEN [st1 EXCEPT !.products[item.productId].costPrice = item.unitCost]
       ELSE st1

RECURSIVE MemStorage_receivePurchaseOrder_loop(_, _, _, _, _)
MemStorage_receivePurchaseOrder_loop(st, order, orderItems, userId, i) ==
    IF i > Len(orderItems) THEN st
    ELSE MemStorage_receivePurchaseOrder_loop(
             MemStorage_receivePurchaseOrder_item(st, order, orderItems[i], userId),
             order, orderItems, userId, i + 1)

\* purchaseOrderItems.values().filter(item => item.purchaseOrderId === id)
OrderItemsOf(st, id) ==
    SelectSeq(st.purchaseOrderItems, LAMBDA item : item.purchaseOrderId = id)

MemStorage_receivePurchaseOrder(st, id, userId) ==
    IF id \notin DOMAIN st.purchaseOrders \/ st.purchaseOrders[id].status = "received"
    THEN [ok |-> FALSE, st |-> st]
    ELSE LET order == st.purchaseOrders[id]
             updatedOrder == With(With(order, "status", "received"), "receivedAt", "now")
             st1 == [st EXCEPT !.purchaseOrders[id] = updatedOrder]
         IN [ok |-> TRUE,
             st |-> MemStorage_receivePurchaseOrder_loop(st1, order,
                        OrderItemsOf(st1, id), userId, 1)]

\* ---------------------------------------------------------- DatabaseStorage
\* Every db.* call is one statement sent on its own (neon-http, no transaction).
\* A statement that violates a foreign key or a unique constraint throws and
\* writes nothing; what earlier statements wrote stays.

\* db.select().from(products).where(eq(products.id, id)).limit(1) -> result[0]
\* (the rows selected: result[0] is undefined when the sequence is empty)
DatabaseStorage_getProduct(st, id) ==
    IF id \in DOMAIN st.products THEN <<st.products[id]>> ELSE <<>>

\* db.update(products).set({ quantity }).where(eq(products.id, id))
DatabaseStorage_setQuantity(st, id, quantity) ==
    IF id \in DOMAIN st.products
    THEN [st EXCEPT !.products[id].quantity = quantity]
    ELSE st

\* Some row of the sequence refers to product id.
RefersToProduct(rows, id) == \E k \in 1..Len(rows) : rows[k].productId = id

\* db.insert(categories).values(insertCategory).returning(): slug is unique
DatabaseStorage_createCategory(st, insertCategory) ==
    IF \E c \in DOMAIN st.categories : st.categories[c].slug = insertCategory.slug
    THEN [ok |-> FALSE, threw |-> TRUE, st |-> st]
    ELSE [ok |-> TRUE, threw |-> FALSE,
          st |-> [st EXCEPT !.categories = MemStorage_insert(@, insertCategory)]]

\* db.update(categories).set(categoryData).where(eq(categories.id, id)).returning()
DatabaseStorage_updateCategory(st, id, categoryData) ==
    IF id \notin DOMAIN st.categories
    THEN [ok |-> FALSE, threw |-> FALSE, st |-> st]
    ELSE IF /\ "slug" \in DOMAIN categoryData
            /\ \E c \in DOMAIN st.categories \ {id} :
                  st.categories[c].slug = categoryData.slug
    THEN [ok |-> FALSE, threw |-> TRUE, st |-> st]
    ELSE [ok |-> TRUE, threw |-> FALSE,
          st |-> [st EXCEPT !.categories[id] = categoryData @@ @]]

\* db.insert(suppliers).values(insertSupplier).returning()
DatabaseStorage_createSupplier(st, insertSupplier) ==
    [ok |-> TRUE, threw |-> FALSE,
     st |-> [st EXCEPT !.suppliers = MemStorage_insert(@, insertSupplier)]]

\* db.update(suppliers).set(supplierData).where(eq(suppliers.id, id)).returning()
DatabaseStorage_updateSupplier(st, id, supplierData) ==
    IF id \notin DOMAIN st.suppliers
    THEN [ok |-> FALSE, threw |-> FALSE, st |-> st]
    ELSE [ok |-> TRUE, threw |-> FALSE,
          st |-> [st EXCEPT !.suppliers[id] = supplierData @@ @]]

\* db.insert(products).values(insertProduct).returning(): sku is unique,
\* category_id references categories.id, supplier_id references suppliers.id
DatabaseStorage_createProduct(st, insertProduct) ==
    IF \/ \E p \in DOMAIN st.products : st.products[p].sku = insertProduct.sku
       \/ insertProduct.categoryId \notin DOMAIN st.categories \cup {Null}
       \/ insertProduct.supplierId \notin DOMAIN st.suppliers \cup {Null}
    THEN [ok |-> FALSE, threw |-> TRUE, st |-> st]
    ELSE [ok |-> TRUE, threw |-> FALSE,
          st |-> [st EXCEPT !.products = MemStorage_insert(@, insertProduct)]]

\* db.update(products).set(productData).where(eq(products.id, id)).returning():
\* category_id references categories.id, supplier_id references suppliers.id
DatabaseStorage_updateProduct(st, id, productData) ==
    LET fk == /\ "categoryId" \in DOMAIN productData
                    => productData.categoryId \in DOMAIN st.categories \cup {Null}
              /\ "supplierId" \in DOMAIN productData
                    => productData.supplierId \in DOMAIN st.suppliers \cup {Null}
    IN IF id \notin DOMAIN st.products
       THEN [ok |-> FALSE, threw |-> FALSE, st |-> st]
       ELSE IF ~fk THEN [ok |-> FALSE, threw |-> TRUE, st |-> st]
       ELSE [ok |-> TRUE, threw |-> FALSE,
             st |-> [st EXCEPT !.products[id] = productData @@ @]]

\* db.delete(categories).where(eq(categories.id, id)): products.category_id
\* references the row; rowCount > 0 when a row was deleted
DatabaseStorage_deleteCategory(st, id) ==
    IF \E p \in DOMAIN st.products : st.products[p].categoryId = id
    THEN [ok |-> FALSE, threw |-> TRUE, st |-> st]
    ELSE [ok |-> id \in DOMAIN st.categories, threw |-> FALSE,
          st |-> [st EXCEPT !.categories = Without(@, id)]]

\* products.supplier_id and purchase_orders.supplier_id reference the row
DatabaseStorage_deleteSupplier(st, id) ==
    IF \/ \E p \in DOMAIN st.products : st.products[p].supplierId = id
       \/ \E o \in DOMAIN st.purchaseOrders : st.purchaseOrders[o].supplierId = id
    THEN [ok |-> FALSE, threw |-> TRUE, st |-> st]
    ELSE [ok |-> id \in DOMAIN st.suppliers, threw |-> FALSE,
          st |-> [st EXCEPT !.suppliers = Without(@, id)]]

\* sale_items, stock_movements, returns and purchase_order_items reference the row
DatabaseStorage_deleteProduct(st, id) ==
    IF \/ RefersToProduct(st.saleItems, id)
       \/ RefersToProduct(st.stockMovements, id)
       \/ RefersToProduct(st.returns, id)
       \/ RefersToProduct(st.purchaseOrderItems, id)
    THEN [ok |-> FALSE, threw |-> TRUE, st |-> st]
    ELSE [ok |-> id \in DOMAIN st.products, threw |-> FALSE,
          st |-> [st EXCEPT !.products = Without(@, id)]]

\* sales.customer_id references the row
DatabaseStorage_deleteCustomer(st, id) ==
    IF \E k \in 1..Len(st.sales) : st.sales[k].customerId = id
    THEN [ok |-> FALSE, threw |-> TRUE, st |-> st]
    ELSE [ok |-> id \in DOMAIN st.customers, threw |-> FALSE,
          st |-> [st EXCEPT !.customers = Without(@, id)]]

\* select ... from products ... where quantity <= min_stock_level: the ids
\* of the rows returned
DatabaseStorage_getLowStockProducts(st) ==
    {p \in DOMAIN st.products : st.products[p].quantity <= st.products[p].minStockLevel}

\* getDashboardMetrics: the low-stock count is
\* select count(*) from products where quantity <= min_stock_level
DatabaseStorage_getDashboardMetrics(st) ==
    [totalProducts |-> Cardinality(DOMAIN st.products),
     lowStockCount |->
         Cardinality({p \in DOMAIN st.products :
                         st.products[p].quantity <= st.products[p].minStockLevel}),
     totalCustomers |-> Cardinality(DOMAIN st.customers)]

\* `return []`
DatabaseStorage_getTopProducts(st, limit) == <<>>

\* `return []`
DatabaseStorage_getSalesData(st, days) == <<>>

\* db.insert(stockMovements).values(row): product_id references products.id
DatabaseStorage_insertStockMovement(st, row) ==
    IF row.productId \in DOMAIN st.products
    THEN [ok |-> TRUE, st |-> [st EXCEPT !.stockMovements = Append(@, row)]]
    ELSE [ok |-> FALSE, st |-> st]

DatabaseStorage_updateProductStock(st, id, quantity, movementType, reason, userId) ==
    LET st1 == DatabaseStorage_setQuantity(st, id, quantity)
        ins == DatabaseStorage_insertStockMovement(st1,
                   StockMovementRow(id, movementType, quantity,
                       IF reason = <<>> THEN <<Null>> ELSE reason, Null, userId))
    IN IF userId = Undefined THEN [ok |-> TRUE, st |-> st1]
       ELSE IF ins.ok THEN [ok |-> TRUE, st |-> ins.st]
       ELSE [ok |-> FALSE, st |-> st1]

\* db.insert(sales).values(insertSale).returning(): invoice_number is unique,
\* customer_id references customers.id, created_at defaults to now()
DatabaseStorage_insertSale(st, insertSale) ==
    LET sale == With(With(insertSale, "id", NewId(Len(st.sales) + 1)), "createdAt", now)
        fk == insertSale.customerId \in {Null, Undefined}
                 \/ insertSale.customerId \in DOMAIN st.customers
        unique == \A k \in 1..Len(st.sales) :
                      st.sales[k].invoiceNumber # insertSale.invoiceNumber
    IN IF fk /\ unique
       THEN [ok |-> TRUE, sale |-> sale, st |-> [st EXCEPT !.sales = Append(@, sale)]]
       ELSE [ok |-> FALSE, sale |-> sale, st |-> st]

\* db.insert(saleItems).values({ ...item, saleId }): product_id references products.id
DatabaseStorage_insertSaleItem(st, sale, item) ==
    IF item.productId \in DOMAIN st.products
    THEN [ok |-> TRUE,
          st |-> [st EXCEPT !.saleItems = Append(@, With(item, "saleId", sale.id))]]
    ELSE [ok |-> FALSE, st |-> st]

\* `if (product && product.trackStock)`, on the rows read by getProduct
DatabaseStorage_createSale_tracked(product) ==
    Len(product) > 0 /\ product[1].trackStock

\* `const newQuantity = product.quantity - item.quantity`
DatabaseStorage_createSale_newQuantity(product, item) ==
    product[1].quantity - item.quantity

DatabaseStorage_createSale_movement(sale, item, userId) ==
    StockMovementRow(item.productId, "sale", 0 - item.quantity,
                     <<"Sale transaction">>, sale.id, userId)

\* The statements of createSale that follow the read of the product.
DatabaseStorage_createSale_stock(st, sale, item, product, userId) ==
    IF DatabaseStorage_createSale_tracked(product)
    THEN LET newQuantity == DatabaseStorage_createSale_newQuantity(product, item)
             st1 == DatabaseStorage_setQuantity(st, item.productId, newQuantity)
         IN DatabaseStorage_insertStockMovement(st1,
                DatabaseStorage_createSale_movement(sale, item, userId))
    ELSE [ok |-> TRUE, st |-> st]

\* One turn of the `for (const item of items)` loop of createSale.
DatabaseStorage_createSale_item(st, sale, item, userId) ==
    LET ins == DatabaseStorage_insertSaleItem(st, sale, item)
    IN IF ~ins.ok THEN ins
       ELSE DatabaseStorage_createSale_stock(ins.st, sale, item,
                DatabaseStorage_getProduct(ins.st, item.productId), userId)

RECURSIVE DatabaseStorage_createSale_loop(_, _, _, _)
DatabaseStorage_createSale_loop(st, sale, items, i) ==
    IF i > Len(items) THEN [ok |-> TRUE, st |-> st]
    ELSE LET r == DatabaseStorage_createSale_item(st, sale, items[i], sale.userId)
         IN IF r.ok THEN DatabaseStorage_createSale_loop(r.st, sale, items, i + 1)
            ELSE r

DatabaseStorage_createSale(st, insertSale, items) ==
    LET h == DatabaseStorage_insertSale(st, insertSale)
    IN IF ~h.ok THEN [ok |-> FALSE, st |-> st]
       ELSE DatabaseStorage_createSale_loop(h.st, h.sale, items, 1)

\* db.insert(returns): sale_id references sales.id, product_id references products.id
DatabaseStorage_createReturn(st, returnItem) ==
    IF /\ \E k \in 1..Len(st.sales) : st.sales[k].id = returnItem.saleId
       /\ returnItem.productId \in DOMAIN st.products
    THEN [ok |-> TRUE,
          st |-> [st EXCEPT !.returns =
                     Append(@, With(returnItem, "id", NewId(Len(st.returns) + 1)))]]
    ELSE [ok |-> FALSE, st |-> st]

RECURSIVE DatabaseStorage_createPurchaseOrder_loop(_, _, _, _)
DatabaseStorage_createPurchaseOrder_loop(st, id, items, i) ==
    IF i > Len(items) THEN [ok |-> TRUE, st |-> st]
    ELSE IF items[i].productId \in DOMAIN st.products
    THEN DatabaseStorage_createPurchaseOrder_loop(
             [st EXCEPT !.purchaseOrderItems =
                 Append(@, With(items[i], "purchaseOrderId", id))],
             id, items, i + 1)
    ELSE [ok |-> FALSE, st |-> st]

\* order_number is unique; supplier_id references suppliers.id; status
\* defaults to 'pending'
DatabaseStorage_createPurchaseOrder(st, order, items) ==
    LET id == NewId(Cardinality(DOMAIN st.purchaseOrders) + 1)
        row == With(With(With(order, "id", id), "receivedAt", Null), "status",
                    IF order.status = Undefined THEN "pending" ELSE order.status)
        unique == \A o \in DOMAIN st.purchaseOrders :
                      st.purchaseOrders[o].orderNumber # order.orderNumber
        fk == order.supplierId \in DOMAIN st.suppliers
    IN IF ~unique \/ ~fk THEN [ok |-> FALSE, st |-> st]
       ELSE DatabaseStorage_createPurchaseOrder_loop(
                [st EXCEPT !.purchaseOrders = (id :> row) @@ @], id, items, 1)

DatabaseStorage_receivePurchaseOrder(st, id, userId) ==
    [ok |-> TRUE,
     st |-> IF id \in DOMAIN st.purchaseOrders
            THEN [st EXCEPT !.purchaseOrders[id] =
                     With(With(@, "status", "received"), "receivedAt", "now")]
            ELSE st]

\* ------------------------------------------------------------------- routes
\* The JWT carries the role of the user; the users are named by their role.
Role(u) == u

\* requireRole(roles): next() is called only for a user whose role is listed.
requireRole(roles, u) == Role(u) \in roles

\* `INV-${Date.now()}` and `PO-${Date.now()}`
InvoiceNumber(t) == <<"INV-", t>>
OrderNumber(t) == <<"PO-", t>>

\* insertSaleSchema.parse: invoice_number, user_id, subtotal, total and
\* payment_method are notNull columns without default, so each is required.
\* The route supplies invoiceNumber and userId itself, and the request
\* bodies enumerated below always carry the two amounts.
insertSaleSchema_ok(sale) ==
    /\ sale.userId # Undefined
    /\ sale.paymentMethod # Undefined

\* A line schema that accepts every item (what the route would do without
\* the parse step).
insertSaleItemSchema_any(item) == TRUE

\* insertSaleItemSchema.parse: sale_id, product_id, quantity, unit_price and
\* total_price are notNull columns without default, so each is required.
insertSaleItemSchema_ok(item) ==
    /\ item.saleId # Undefined
    /\ item.productId # Undefined

\* insertReturnSchema.parse: reason is a notNull column without default.
insertReturnSchema_ok(body) == body.reason # Undefined

Respond(route, input, status, pre) ==
    /\ last' = [route |-> route, input |-> input, status |-> status, pre |-> pre]
    /\ ops' = ops + 1

\* res.json(body): a response that carries a body the properties read
RespondJson(route, input, status, pre, body) ==
    /\ last' = [route |-> route, input |-> input, status |-> status, pre |-> pre,
                json |-> body]
    /\ ops' = ops + 1

\* storage.<method>, for the implementation in use
storage_createSale(st, insertSale, items) ==
    IF impl = "mem" THEN MemStorage_createSale(st, insertSale, items)
    ELSE DatabaseStorage_createSale(st, insertSale, items)

storage_updateProductStock(st, id, quantity, movementType, reason, userId) ==
    IF impl = "mem"
    THEN MemStorage_updateProductStock(st, id, quantity, movementType, reason, userId)
    ELSE DatabaseStorage_updateProductStock(st, id, quantity, movementType, reason, userId)

storage_getLowStockProducts(st) ==
    IF impl = "mem" THEN MemStorage_getLowStockProducts(st)
    ELSE DatabaseStorage_getLowStockProducts(st)

storage_getDashboardMetrics(st) ==
    IF impl = "mem" THEN MemStorage_getDashboardMetrics(st)
    ELSE DatabaseStorage_getDashboardMetrics(st)

storage_getTopProducts(st, limit) ==
    IF impl = "mem" THEN MemStorage_getTopProducts(st, limit)
    ELSE DatabaseStorage_getTopProducts(st, limit)

storage_getSalesData(st, days) ==
    IF impl = "mem" THEN MemStorage_getSalesData(st, days)
    ELSE DatabaseStorage_getSalesData(st, days)

storage_createCategory(st, insertCategory) ==
    IF impl = "mem" THEN MemStorage_createCategory(st, insertCategory)
    ELSE DatabaseStorage_createCategory(st, insertCategory)

storage_updateCategory(st, id, categoryData) ==
    IF impl = "mem" THEN MemStorage_updateCategory(st, id, categoryData)
    ELSE DatabaseStorage_updateCategory(st, id, categoryData)

storage_createSupplier(st, insertSupplier) ==
    IF impl = "mem" THEN MemStorage_createSupplier(st, insertSupplier)
    ELSE DatabaseStorage_createSupplier(st, insertSupplier)

storage_updateSupplier(st, id, supplierData) ==
    IF impl = "mem" THEN MemStorage_updateSupplier(st, id, supplierData)
    ELSE DatabaseStorage_updateSupplier(st, id, supplierData)

storage_createProduct(st, insertProduct) ==
    IF impl = "mem" THEN MemStorage_createProduct(st, insertProduct)
    ELSE DatabaseStorage_createProduct(st, insertProduct)

storage_updateProduct(st, id, productData) ==
    IF impl = "mem" THEN MemStorage_updateProduct(st, id, productData)
    ELSE DatabaseStorage_updateProduct(st, id, productData)

storage_deleteCategory(st, id) ==
    IF impl = "mem" THEN MemStorage_deleteCategory(st, id)
    ELSE DatabaseStorage_deleteCategory(st, id)

storage_deleteSupplier(st, id) ==
    IF impl = "mem" THEN MemStorage_deleteSupplier(st, id)
    ELSE DatabaseStorage_deleteSupplier(st, id)

storage_deleteProduct(st, id) ==
    IF impl = "mem" THEN MemStorage_deleteProduct(st, id)
    ELSE DatabaseStorage_deleteProduct(st, id)

storage_deleteCustomer(st, id) ==
    IF impl = "mem" THEN MemStorage_deleteCustomer(st, id)
    ELSE DatabaseStorage_deleteCustomer(st, id)

storage_createReturn(st, returnItem) ==
    IF impl = "mem" THEN MemStorage_createReturn(st, returnItem)
    ELSE DatabaseStorage_createReturn(st, returnItem)

storage_createPurchaseOrder(st, order, items) ==
    IF impl = "mem" THEN MemStorage_createPurchaseOrder(st, order, items)
    ELSE DatabaseStorage_createPurchaseOrder(st, order, items)

storage_receivePurchaseOrder(st, id, userId) ==
    IF impl = "mem" THEN MemStorage_receivePurchaseOrder(st, id, userId)
    ELSE DatabaseStorage_receivePurchaseOrder(st, id, userId)

\* ---------------------------------------------------------- request bodies
SeqsUpTo(S, n) == UNION {[1..k -> S] : k \in 0..n}

SaleLine(p, q, saleId) ==
    [saleId |-> saleId, productId |-> p, quantity |-> q,
     unitPrice |-> UnitPrice, totalPrice |-> q * UnitPrice]

SaleLines ==
    {SaleLine(p, 1, "client") : p \in AllProductIds}
        \cup {SaleLine("p1", MaxQty, "client")}

SaleHeader(customerId, subtotal, taxAmount, discountAmount, total) ==
    [customerId |-> customerId, subtotal |-> subtotal, taxAmount |-> taxAmount,
     discountAmount |-> discountAmount, total |-> total, paymentMethod |-> "cash"]

\* Totals that reconcile (subtotal + tax - discount) and totals that do not.
SaleHeaders ==
    {SaleHeader(c, SampleSubtotal, SampleTax, 0, t) :
        c \in {Null} \cup CustomerIds, t \in {SampleTotal, SampleTotal + UnitPrice}}

BaseHeader == SaleHeader("c1", SampleSubtotal, SampleTax, 0, SampleTotal)

\* Every cart of up to MaxLines lines under the base header, a one-line cart
\* under every header, a line of quantity zero, and the body the bundled POS
\* client sends, whose lines carry no saleId (Cart.tsx).
SaleBodies ==
    {[sale |-> BaseHeader, items |-> l] : l \in SeqsUpTo(SaleLines, MaxLines)}
        \cup {[sale |-> h, items |-> <<SaleLine("p1", 1, "client")>>] : h \in SaleHeaders}
        \cup {[sale |-> BaseHeader, items |-> <<SaleLine("p1", 0, "client")>>]}
        \cup {[sale |-> SaleHeader(Null, SampleSubtotal, SampleTax, 0, SampleTotal),
               items |-> <<SaleLine("p1", 1, Undefined)>>]}
        \cup {[sale |-> BaseHeader,
               items |-> <<SaleLine("p1", 1, "client"), SaleLine("p2", 1, Undefined)>>]}
        \cup {[sale |-> With(BaseHeader, "paymentMethod", Undefined),
               items |-> <<SaleLine("p1", 1, "client")>>]}

\* typeofQuantity is `typeof quantity` of the JSON value sent.
AdjustBodies ==
    {[quantity |-> q, typeofQuantity |-> "number", reason |-> <<"count">>] :
        q \in {0 - MaxQty, 1}}
        \cup {[quantity |-> 0, typeofQuantity |-> "string", reason |-> <<"count">>]}

ReturnBodies ==
    {[saleId |-> s, productId |-> p, quantity |-> 1, reason |-> r, refundAmount |-> UnitPrice] :
        s \in {"1", "9"}, p \in {"p1", MissingProduct}, r \in {"damaged"}}
        \cup {[saleId |-> "1", productId |-> "p1", quantity |-> 1, reason |-> Undefined,
               refundAmount |-> UnitPrice]}

OrderLine(p, q) ==
    [productId |-> p, quantity |-> q, unitCost |-> UnitCost, totalCost |-> q * UnitCost]

OrderLines == {OrderLine("p1", MaxQty), OrderLine(MissingProduct, 1)}

OrderBody(status, items) ==
    [order |-> [status |-> status, supplierId |-> "s1", totalAmount |-> 0],
     items |-> items]

\* Every order of up to MaxLines lines sent with status 'pending', and a
\* one-line order sent without a status or as 'cancelled'.
OrderBodies ==
    {OrderBody("pending", l) : l \in SeqsUpTo(OrderLines, MaxLines)}
        \cup {OrderBody(s, <<OrderLine("p1", MaxQty)>>) : s \in {Undefined, "cancelled"}}

OrderIdInputs == {"1", "2"}

\* Bodies of PUT /api/products/:id: any subset of the product's columns.
ProductBodies == {[quantity |-> InitQty + 1], [costPrice |-> UnitCost]}

\* Bodies of POST /api/products: a new sku, a sku in use, no sku.
NewProductBodies ==
    {[sku |-> sku, quantity |-> InitQty, costPrice |-> InitCost, trackStock |-> TRUE,
      minStockLevel |-> 1, categoryId |-> "cat1", supplierId |-> "s1"] :
        sku \in {"NEW-003", "WH-001", Undefined}}

\* Bodies of POST /api/categories: a new slug, a slug in use, no slug.
NewCategoryBodies ==
    {[name |-> "Toys", slug |-> slug] : slug \in {"toys", "electronics", Undefined}}

\* Bodies of PUT /api/categories/:id and PUT /api/suppliers/:id
RenameBodies == {[name |-> "Renamed"]}

\* Bodies of POST /api/suppliers: with the required name, and without.
NewSupplierBodies == {[name |-> n] : n \in {"New Supplier", Undefined}}

\* ----------------------------------------------------------------- POS page
\* parseFloat(product.sellingPrice) of the products the page has fetched.
POS_sellingPrice(productId) == IF productId = "p1" THEN UnitPrice ELSE SecondPrice

\* An addToCart that appends a new item whether or not the product is
\* already in the cart.
POS_addToCart_append(cart, ps, productId) ==
    IF productId \notin DOMAIN ps THEN cart
    ELSE Append(cart, [productId |-> productId, quantity |-> 1,
                       unitPrice |-> POS_sellingPrice(productId),
                       totalPrice |-> POS_sellingPrice(productId)])

POS_addToCart(cart, ps, productId) ==
    IF productId \notin DOMAIN ps THEN cart
    ELSE IF \E k \in DOMAIN cart : cart[k].productId = productId
    THEN [k \in DOMAIN cart |->
            IF cart[k].productId = productId
            THEN [cart[k] EXCEPT !.quantity = cart[k].quantity + 1,
                                 !.totalPrice = (cart[k].quantity + 1) * cart[k].unitPrice]
            ELSE cart[k]]
    ELSE Append(cart, [productId |-> productId, quantity |-> 1,
                       unitPrice |-> POS_sellingPrice(productId),
                       totalPrice |-> POS_sellingPrice(productId)])

MathMax(a, b) == IF a >= b THEN a ELSE b

\* cart.map(...).filter(Boolean): a mapped entry is {} for null and {item}
\* for an item; the filter keeps the items.
POS_updateQuantity(cart, productId, change) ==
    LET mapped == [k \in DOMAIN cart |->
                     IF cart[k].productId = productId
                     THEN LET newQuantity == MathMax(0, cart[k].quantity + change)
                          IN IF newQuantity = 0 THEN {}
                             ELSE {[cart[k] EXCEPT
                                      !.quantity = newQuantity,
                                      !.totalPrice = newQuantity * cart[k].unitPrice]}
                     ELSE {cart[k]}]
        kept == SelectSeq(mapped, LAMBDA e : e # {})
    IN [k \in DOMAIN kept |-> CHOOSE item \in kept[k] : TRUE]

POS_removeFromCart(cart, productId) ==
    SelectSeq(cart, LAMBDA item : item.productId # productId)

POS_clearCart == <<>>

\* cart.reduce((sum, item) => sum + item.totalPrice, 0)
POS_subtotal(cart) == SumSeq([k \in DOMAIN cart |-> cart[k].totalPrice])

PaymentMethods == {"cash", "card", "transfer"}

InitPos == [cart |-> <<>>, selectedCustomer |-> Null, paymentMethod |-> "cash"]

\* ------------------------------------------------------------------ actions
\* app.post("/api/sales", authenticateToken, ...)
PostSalesOf(bodies, maxOps) ==
    /\ ops < maxOps
    /\ \E body \in bodies :
         LET invoiceNumber == InvoiceNumber(now)
             saleData == With(With(body.sale, "invoiceNumber", invoiceNumber),
                              "userId", user)
             valid == /\ insertSaleSchema_ok(saleData)
                      /\ \A k \in 1..Len(body.items) :
                            insertSaleItemSchema_ok(body.items[k])
             r == storage_createSale(Store, saleData, body.items)
         IN IF ~valid
            THEN /\ Respond("POST /api/sales", body, 400, Store)
                 /\ UNCHANGED storeVars
            ELSE /\ Commit(r.st)
                 /\ Respond("POST /api/sales", body, IF r.ok THEN 201 ELSE 400, Store)
    /\ UNCHANGED <<pos, twin, impl, user, now, reqs>>

PostSales == PostSalesOf(SaleBodies, MaxOps)

\* The requests of a till session: a complete or an incomplete header, with
\* no line, valid lines, a line without saleId, or both kinds in either order.
DeskHeaders == {BaseHeader, With(BaseHeader, "paymentMethod", Undefined)}
DeskItems ==
    {<<>>,
     <<SaleLine("p1", 1, "client")>>,
     <<SaleLine("p1", 1, Undefined)>>,
     <<SaleLine("p1", 1, "client"), SaleLine("p2", 1, "client")>>,
     <<SaleLine("p1", 1, "client"), SaleLine("p2", 1, Undefined)>>,
     <<SaleLine("p1", 1, Undefined), SaleLine("p2", 1, "client")>>}
DeskBodies == {[sale |-> h, items |-> l] : h \in DeskHeaders, l \in DeskItems}

PostSalesDesk == PostSalesOf(DeskBodies, MaxDeskOps)

\* app.post("/api/products/:id/adjust-stock", authenticateToken, requireRole(['admin', 'manager']), ...)
PostAdjustStock ==
    /\ ops < MaxOps
    /\ \E id \in AllProductIds, body \in AdjustBodies :
         LET input == [id |-> id, body |-> body]
             r == storage_updateProductStock(Store, id, body.quantity, "adjustment",
                                             body.reason, user)
         IN IF ~requireRole({"admin", "manager"}, user)
            THEN /\ Respond("POST /api/products/:id/adjust-stock", input, 403, Store)
                 /\ UNCHANGED storeVars
            ELSE IF body.typeofQuantity # "number"
            THEN /\ Respond("POST /api/products/:id/adjust-stock", input, 400, Store)
                 /\ UNCHANGED storeVars
            ELSE /\ Commit(r.st)
                 /\ Respond("POST /api/products/:id/adjust-stock", input,
                            IF r.ok THEN 200 ELSE 404, Store)
    /\ UNCHANGED <<pos, twin, impl, user, now, reqs>>

\* app.post("/api/returns", authenticateToken, ...)
PostReturns ==
    /\ ops < MaxOps
    /\ \E body \in ReturnBodies :
         LET returnData == With(body, "userId", user)
             r == storage_createReturn(Store, returnData)
         IN IF ~insertReturnSchema_ok(body)
            THEN /\ Respond("POST /api/returns", body, 400, Store)
                 /\ UNCHANGED storeVars
            ELSE /\ Commit(r.st)
                 /\ Respond("POST /api/returns", body, IF r.ok THEN 201 ELSE 400, Store)
    /\ UNCHANGED <<pos, twin, impl, user, now, reqs>>

\* app.post("/api/purchase-orders", authenticateToken, requireRole(['admin', 'manager']), ...)
PostPurchaseOrders ==
    /\ ops < MaxOps
    /\ \E body \in OrderBodies :
         LET orderData == With(With(body.order, "orderNumber", OrderNumber(now)),
                               "userId", user)
             r == storage_createPurchaseOrder(Store, orderData, body.items)
         IN IF ~requireRole({"admin", "manager"}, user)
            THEN /\ Respond("POST /api/purchase-orders", body, 403, Store)
                 /\ UNCHANGED storeVars
            ELSE /\ Commit(r.st)
                 /\ Respond("POST /api/purchase-orders", body,
                            IF r.ok THEN 201 ELSE 400, Store)
    /\ UNCHANGED <<pos, twin, impl, user, now, reqs>>

\* app.post("/api/purchase-orders/:id/receive", authenticateToken, requireRole(['admin', 'manager']), ...)
PostReceive ==
    /\ ops < MaxOps
    /\ \E id \in OrderIdInputs :
         LET r == storage_receivePurchaseOrder(Store, id, user)
         IN IF ~requireRole({"admin", "manager"}, user)
            THEN /\ Respond("POST /api/purchase-orders/:id/receive", id, 403, Store)
                 /\ UNCHANGED storeVars
            ELSE /\ Commit(r.st)
                 /\ Respond("POST /api/purchase-orders/:id/receive", id,
                            IF r.ok THEN 200 ELSE 404, Store)
    /\ UNCHANGED <<pos, twin, impl, user, now, reqs>>

\* app.get("/api/products/low-stock", authenticateToken, ...)
GetLowStock ==
    /\ ops < MaxOps
    /\ RespondJson("GET /api/products/low-stock", <<>>, 200, Store,
                   storage_getLowStockProducts(Store))
    /\ UNCHANGED <<pos, twin, impl, user, now, reqs>>
    /\ UNCHANGED storeVars

\* app.get("/api/dashboard/metrics", authenticateToken, ...)
GetDashboardMetrics ==
    /\ ops < MaxOps
    /\ RespondJson("GET /api/dashboard/metrics", <<>>, 200, Store,
                   storage_getDashboardMetrics(Store))
    /\ UNCHANGED <<pos, twin, impl, user, now, reqs>>
    /\ UNCHANGED storeVars

\* req.query.limit, parsed: 0 stands for an absent or zero limit.
LimitInputs == 0..MaxLimit

\* app.get("/api/dashboard/top-products", authenticateToken, ...)
GetTopProducts ==
    /\ ops < MaxOps
    /\ \E query \in LimitInputs :
         LET limit == IF query = 0 THEN DefaultLimit ELSE query
         IN RespondJson("GET /api/dashboard/top-products", limit, 200, Store,
                        storage_getTopProducts(Store, limit))
    /\ UNCHANGED <<pos, twin, impl, user, now, reqs>>
    /\ UNCHANGED storeVars

\* req.query.days, parsed: 0 stands for an absent or zero value.
DaysInputs == 0..MaxDays

\* app.get("/api/dashboard/sales-data", authenticateToken, ...)
GetSalesData ==
    /\ ops < MaxOps
    /\ \E query \in DaysInputs :
         LET days == IF query = 0 THEN DefaultDays ELSE query
         IN RespondJson("GET /api/dashboard/sales-data", days, 200, Store,
                        storage_getSalesData(Store, days))
    /\ UNCHANGED <<pos, twin, impl, user, now, reqs>>
    /\ UNCHANGED storeVars

\* What a create handler answers: 201, or the catch block's status.
Created(r, caught) == IF r.threw THEN caught ELSE 201

\* What an update handler answers: 200, 404 when no row matched, 400 from the
\* catch block.
Updated(r) == IF r.threw THEN 400 ELSE IF r.ok THEN 200 ELSE 404

\* app.post("/api/categories", authenticateToken, ...)
PostCategories ==
    /\ ops < MaxOps
    /\ \E body \in NewCategoryBodies :
         LET r == storage_createCategory(Store, body)
         IN IF body.name = Undefined \/ body.slug = Undefined
            THEN /\ Respond("POST /api/categories", body, 400, Store)
                 /\ UNCHANGED storeVars
            ELSE /\ Commit(r.st)
                 /\ Respond("POST /api/categories", body, Created(r, 500), Store)
    /\ UNCHANGED <<pos, twin, impl, user, now, reqs>>

\* app.put("/api/categories/:id", authenticateToken, requireRole(['admin', 'manager']), ...)
PutCategory ==
    /\ ops < MaxOps
    /\ \E id \in CategoryIds \cup {MissingCategory}, body \in RenameBodies :
         LET input == [id |-> id, body |-> body]
             r == storage_updateCategory(Store, id, body)
         IN IF ~requireRole({"admin", "manager"}, user)
            THEN /\ Respond("PUT /api/categories/:id", input, 403, Store)
                 /\ UNCHANGED storeVars
            ELSE /\ Commit(r.st)
                 /\ Respond("PUT /api/categories/:id", input, Updated(r), Store)
    /\ UNCHANGED <<pos, twin, impl, user, now, reqs>>

\* app.post("/api/suppliers", authenticateToken, requireRole(['admin', 'manager']), ...)
PostSuppliers ==
    /\ ops < MaxOps
    /\ \E body \in NewSupplierBodies :
         LET r == storage_createSupplier(Store, body)
         IN IF ~requireRole({"admin", "manager"}, user)
            THEN /\ Respond("POST /api/suppliers", body, 403, Store)
                 /\ UNCHANGED storeVars
            ELSE IF body.name = Undefined
            THEN /\ Respond("POST /api/suppliers", body, 400, Store)
                 /\ UNCHANGED storeVars
            ELSE /\ Commit(r.st)
                 /\ Respond("POST /api/suppliers", body, Created(r, 400), Store)
    /\ UNCHANGED <<pos, twin, impl, user, now, reqs>>

\* app.put("/api/suppliers/:id", authenticateToken, requireRole(['admin', 'manager']), ...)
PutSupplier ==
    /\ ops < MaxOps
    /\ \E id \in SupplierIds \cup {MissingSupplier}, body \in RenameBodies :
         LET input == [id |-> id, body |-> body]
             r == storage_updateSupplier(Store, id, body)
         IN IF ~requireRole({"admin", "manager"}, user)
            THEN /\ Respond("PUT /api/suppliers/:id", input, 403, Store)
                 /\ UNCHANGED storeVars
            ELSE /\ Commit(r.st)
                 /\ Respond("PUT /api/suppliers/:id", input, Updated(r), Store)
    /\ UNCHANGED <<pos, twin, impl, user, now, reqs>>

\* app.post("/api/products", authenticateToken, requireRole(['admin', 'manager']), ...)
PostProducts ==
    /\ ops < MaxOps
    /\ \E body \in NewProductBodies :
         LET r == storage_createProduct(Store, body)
         IN IF ~requireRole({"admin", "manager"}, user)
            THEN /\ Respond("POST /api/products", body, 403, Store)
                 /\ UNCHANGED storeVars
            ELSE IF body.sku = Undefined
            THEN /\ Respond("POST /api/products", body, 400, Store)
                 /\ UNCHANGED storeVars
            ELSE /\ Commit(r.st)
                 /\ Respond("POST /api/products", body, Created(r, 400), Store)
    /\ UNCHANGED <<pos, twin, impl, user, now, reqs>>

\* app.put("/api/products/:id", authenticateToken, requireRole(['admin', 'manager']), ...)
PutProduct ==
    /\ ops < MaxOps
    /\ \E id \in AllProductIds, body \in ProductBodies :
         LET input == [id |-> id, body |-> body]
             r == storage_updateProduct(Store, id, body)
         IN IF ~requireRole({"admin", "manager"}, user)
            THEN /\ Respond("PUT /api/products/:id", input, 403, Store)
                 /\ UNCHANGED storeVars
            ELSE /\ Commit(r.st)
                 /\ Respond("PUT /api/products/:id", input, Updated(r), Store)
    /\ UNCHANGED <<pos, twin, impl, user, now, reqs>>

\* The body shared by the four delete handlers: 403 from requireRole, 500 from
\* the catch block, 404 when nothing was deleted, 204 otherwise.
DeleteHandler(route, roles, id, r) ==
    IF ~requireRole(roles, user)
    THEN /\ Respond(route, id, 403, Store)
         /\ UNCHANGED storeVars
    ELSE /\ Commit(r.st)
         /\ Respond(route, id, IF r.threw THEN 500 ELSE IF r.ok THEN 204 ELSE 404, Store)

\* app.delete("/api/categories/:id", authenticateToken, requireRole(['admin']), ...)
DeleteCategory ==
    /\ ops < MaxOps
    /\ \E id \in CategoryIds :
         DeleteHandler("DELETE /api/categories/:id", {"admin"}, id,
                       storage_deleteCategory(Store, id))
    /\ UNCHANGED <<pos, twin, impl, user, now, reqs>>

\* app.delete("/api/suppliers/:id", authenticateToken, requireRole(['admin']), ...)
DeleteSupplier ==
    /\ ops < MaxOps
    /\ \E id \in SupplierIds :
         DeleteHandler("DELETE /api/suppliers/:id", {"admin"}, id,
                       storage_deleteSupplier(Store, id))
    /\ UNCHANGED <<pos, twin, impl, user, now, reqs>>

\* app.delete("/api/products/:id", authenticateToken, requireRole(['admin']), ...)
DeleteProduct ==
    /\ ops < MaxOps
    /\ \E id \in AllProductIds :
         DeleteHandler("DELETE /api/products/:id", {"admin"}, id,
                       storage_deleteProduct(Store, id))
    /\ UNCHANGED <<pos, twin, impl, user, now, reqs>>

\* app.delete("/api/customers/:id", authenticateToken, requireRole(['admin', 'manager']), ...)
DeleteCustomer ==
    /\ ops < MaxOps
    /\ \E id \in CustomerIds \cup {MissingCustomer} :
         DeleteHandler("DELETE /api/customers/:id", {"admin", "manager"}, id,
                       storage_deleteCustomer(Store, id))
    /\ UNCHANGED <<pos, twin, impl, user, now, reqs>>

\* The clock advances by a millisecond.
Tick ==
    /\ now < MaxNow
    /\ now' = now + 1
    /\ UNCHANGED <<pos, twin, impl, user, last, ops, reqs>>
    /\ UNCHANGED storeVars

InitProducts ==
    [p \in ProductIds |->
        [sku |-> IF p = "p1" THEN "WH-001" ELSE "PC-002",
         quantity |-> InitQty, costPrice |-> InitCost, trackStock |-> (p = "p1"),
         minStockLevel |-> 1, categoryId |-> "cat1", supplierId |-> "s1"]]

InitCategories ==
    [c \in CategoryIds |->
        IF c = "cat1" THEN [name |-> "Electronics", slug |-> "electronics"]
        ELSE [name |-> "Accessories", slug |-> "accessories"]]

InitSuppliers ==
    [s \in SupplierIds |->
        [name |-> IF s = "s1" THEN "Tech Supplies Co." ELSE "Global Electronics"]]

InitCustomers ==
    [c \in CustomerIds |-> [totalSpent |-> InitSpent, loyaltyPoints |-> InitPoints]]

\* The store after one purchase order was created before the clock started.
InitOrder ==
    MemStorage_createPurchaseOrder(
        [purchaseOrders |-> <<>>, purchaseOrderItems |-> <<>>],
        With(With(OrderBody("pending", <<>>).order, "orderNumber", OrderNumber(0 - 1)),
             "userId", "admin"),
        <<OrderLine("p1", MaxQty)>>).st

NoRequest == [route |-> "none", input |-> <<>>, status |-> 0, pre |-> <<>>]

\* The catalogue (a tracked and an untracked product, one customer) is in
\* place; there is no purchase order yet, or one pending order.
InitStore ==
    /\ impl \in Impls
    /\ user \in Users
    /\ now = 0
    /\ categories = InitCategories
    /\ suppliers = InitSuppliers
    /\ products = InitProducts
    /\ customers = InitCustomers
    /\ sales = <<>>
    /\ saleItems = <<>>
    /\ stockMovements = <<>>
    /\ returns = <<>>
    /\ \/ purchaseOrders = <<>> /\ purchaseOrderItems = <<>>
       \/ /\ purchaseOrders = InitOrder.purchaseOrders
          /\ purchaseOrderItems = InitOrder.purchaseOrderItems
    /\ last = NoRequest
    /\ ops = 0

Init ==
    /\ InitStore
    /\ reqs = <<>>
    /\ pos = InitPos
    /\ twin = <<>>

Next ==
    \/ PostSales
    \/ PostAdjustStock
    \/ PostReturns
    \/ PostPurchaseOrders
    \/ PostReceive
    \/ GetLowStock
    \/ GetDashboardMetrics
    \/ GetTopProducts
    \/ GetSalesData
    \/ PostCategories
    \/ PutCategory
    \/ PostSuppliers
    \/ PutSupplier
    \/ PostProducts
    \/ PutProduct
    \/ DeleteCategory
    \/ DeleteSupplier
    \/ DeleteProduct
    \/ DeleteCustomer
    \/ Tick

Spec == Init /\ [][Next]_vars

\* The sales desk alone: POST /api/sales requests and the clock.
NextSales ==
    \/ PostSalesDesk
    \/ Tick

SpecSales == Init /\ [][NextSales]_vars

\* ---------------------------------------------------------- the POS session
\* The handlers of the POS page.  React re-renders after each event, so a
\* handler reads the cart the previous one set.
AddToCart ==
    /\ \E productId \in AllProductIds :
         LET cart == POS_addToCart(pos.cart, products, productId)
         IN /\ \A k \in DOMAIN cart : cart[k].quantity <= MaxCartQty
            /\ pos' = [pos EXCEPT !.cart = cart]
    /\ UNCHANGED <<twin, impl, user, now, last, ops, reqs>>
    /\ UNCHANGED storeVars

UpdateQuantity ==
    /\ \E productId \in AllProductIds, change \in {1, 0 - 1} :
         LET cart == POS_updateQuantity(pos.cart, productId, change)
         IN /\ \A k \in DOMAIN cart : cart[k].quantity <= MaxCartQty
            /\ pos' = [pos EXCEPT !.cart = cart]
    /\ UNCHANGED <<twin, impl, user, now, last, ops, reqs>>
    /\ UNCHANGED storeVars

RemoveFromCart ==
    /\ \E productId \in AllProductIds :
         pos' = [pos EXCEPT !.cart = POS_removeFromCart(pos.cart, productId)]
    /\ UNCHANGED <<twin, impl, user, now, last, ops, reqs>>
    /\ UNCHANGED storeVars

ClearCart ==
    /\ pos' = [pos EXCEPT !.cart = POS_clearCart]
    /\ UNCHANGED <<twin, impl, user, now, last, ops, reqs>>
    /\ UNCHANGED storeVars

SetSelectedCustomer ==
    /\ \E c \in {Null} \cup CustomerIds : pos' = [pos EXCEPT !.selectedCustomer = c]
    /\ UNCHANGED <<twin, impl, user, now, last, ops, reqs>>
    /\ UNCHANGED storeVars

SetPaymentMethod ==
    /\ \E m \in PaymentMethods : pos' = [pos EXCEPT !.paymentMethod = m]
    /\ UNCHANGED <<twin, impl, user, now, last, ops, reqs>>
    /\ UNCHANGED storeVars

NextCart ==
    \/ AddToCart
    \/ UpdateQuantity
    \/ RemoveFromCart
    \/ ClearCart
    \/ SetSelectedCustomer
    \/ SetPaymentMethod

SpecCart == Init /\ [][NextCart]_vars

\* ------------------------------------------------ the two stores side by side
\* The same IStorage calls made on a MemStorage and on a DatabaseStorage that
\* start from the same rows.  m and d are what the call returns on each.
TwinCall(method, input, m, d) ==
    [mem |-> m.st, db |-> d.st, memOk |-> m.ok, dbOk |-> d.ok,
     calls |-> twin.calls + 1, method |-> method, input |-> input]

TwinUpdateProductStock ==
    /\ \E id \in AllProductIds, quantity \in {1, 0 - 1} :
         twin' = TwinCall("updateProductStock", [id |-> id, quantity |-> quantity],
                     MemStorage_updateProductStock(twin.mem, id, quantity, "adjustment",
                                                   <<"count">>, user),
                     DatabaseStorage_updateProductStock(twin.db, id, quantity,
                                                        "adjustment", <<"count">>, user))
    /\ twin.calls < MaxCalls
    /\ UNCHANGED <<pos, impl, user, now, last, ops, reqs>>
    /\ UNCHANGED storeVars

TwinCreateSale ==
    /\ \E body \in DeskBodies :
         LET saleData == With(With(body.sale, "invoiceNumber", InvoiceNumber(now)),
                              "userId", user)
         IN /\ insertSaleSchema_ok(saleData)
            /\ \A k \in 1..Len(body.items) : insertSaleItemSchema_ok(body.items[k])
            /\ twin' = TwinCall("createSale", body,
                           MemStorage_createSale(twin.mem, saleData, body.items),
                           DatabaseStorage_createSale(twin.db, saleData, body.items))
    /\ twin.calls < MaxCalls
    /\ UNCHANGED <<pos, impl, user, now, last, ops, reqs>>
    /\ UNCHANGED storeVars

TwinCreateReturn ==
    /\ \E body \in {b \in ReturnBodies : insertReturnSchema_ok(b)} :
         LET returnData == With(body, "userId", user)
         IN twin' = TwinCall("createReturn", body,
                        MemStorage_createReturn(twin.mem, returnData),
                        DatabaseStorage_createReturn(twin.db, returnData))
    /\ twin.calls < MaxCalls
    /\ UNCHANGED <<pos, impl, user, now, last, ops, reqs>>
    /\ UNCHANGED storeVars

TwinReceivePurchaseOrder ==
    /\ \E id \in OrderIdInputs :
         twin' = TwinCall("receivePurchaseOrder", id,
                     MemStorage_receivePurchaseOrder(twin.mem, id, user),
                     DatabaseStorage_receivePurchaseOrder(twin.db, id, user))
    /\ twin.calls < MaxCalls
    /\ UNCHANGED <<pos, impl, user, now, last, ops, reqs>>
    /\ UNCHANGED storeVars

InitTwin ==
    /\ InitStore
    /\ reqs = <<>>
    /\ pos = InitPos
    /\ twin = [mem |-> Store, db |-> Store, memOk |-> TRUE, dbOk |-> TRUE,
               calls |-> 0, method |-> "none", input |-> <<>>]

NextTwin ==
    \/ TwinUpdateProductStock
    \/ TwinCreateSale
    \/ TwinCreateReturn
    \/ TwinReceivePurchaseOrder

SpecTwin == InitTwin /\ [][NextTwin]_vars

\* ------------------------------------------- requests handled concurrently
\* Two POST /api/sales requests in flight.  A handler runs until it awaits;
\* with DatabaseStorage every statement is a round trip to the database, so
\* the statements of the two requests interleave; with MemStorage a request
\* is suspended at each `await this.updateProductStock(...)`.
Reqs == {1, 2}

ConcLines == {SaleLine("p1", InitQty, "client"), SaleLine("p2", 1, "client")}

ConcBodies == {[sale |-> BaseHeader, items |-> l] : l \in SeqsUpTo(ConcLines, MaxLines)}

Idle == [pc |-> "idle", sale |-> <<>>, items |-> <<>>, i |-> 0, product |-> <<>>,
         status |-> 0]

SetReq(r, v) == reqs' = [reqs EXCEPT ![r] = v]

\* res.status(201).json(createdSale) / the catch block's res.status(400)
Done(q, status) == [q EXCEPT !.pc = "done", !.status = status]

\* The rest of the loop after item i: the next item, or the return.
DbNext(q) ==
    IF q.i < Len(q.items) THEN [q EXCEPT !.pc = "insertItem", !.i = q.i + 1]
    ELSE Done(q, 201)

\* The handler up to the first await of storage.createSale.
SaleBegin(r) ==
    /\ reqs[r].pc = "idle"
    /\ \E body \in ConcBodies :
         LET saleData == With(With(body.sale, "invoiceNumber", InvoiceNumber(now)),
                              "userId", user)
             h == MemStorage_createSale_header(Store, saleData)
             q == [reqs[r] EXCEPT !.items = body.items, !.i = 1]
         IN IF impl = "db"
            THEN /\ SetReq(r, [q EXCEPT !.pc = "insertSale", !.sale = saleData])
                 /\ UNCHANGED storeVars
            ELSE IF Len(body.items) = 0
            THEN /\ Commit(MemStorage_createSale_customer(h.st, h.sale))
                 /\ SetReq(r, Done([q EXCEPT !.sale = h.sale], 201))
            ELSE /\ Commit(MemStorage_createSale_item(h.st, h.sale, body.items[1]))
                 /\ SetReq(r, [q EXCEPT !.pc = "memLoop", !.sale = h.sale, !.i = 2])
    /\ UNCHANGED <<pos, twin, impl, user, now, last, ops>>

\* MemStorage.createSale resumed after an await: the next item, or the
\* customer block and the return.
MemSaleResume(r) ==
    LET q == reqs[r]
    IN /\ q.pc = "memLoop"
       /\ IF q.i <= Len(q.items)
          THEN /\ Commit(MemStorage_createSale_item(Store, q.sale, q.items[q.i]))
               /\ SetReq(r, [q EXCEPT !.i = q.i + 1])
          ELSE /\ Commit(MemStorage_createSale_customer(Store, q.sale))
               /\ SetReq(r, Done(q, 201))
       /\ UNCHANGED <<pos, twin, impl, user, now, last, ops>>

\* await db.insert(sales).values(insertSale).returning()
DbInsertSale(r) ==
    LET q == reqs[r]
        h == DatabaseStorage_insertSale(Store, q.sale)
    IN /\ q.pc = "insertSale"
       /\ Commit(h.st)
       /\ SetReq(r, IF ~h.ok THEN Done(q, 400)
                    ELSE IF Len(q.items) = 0 THEN Done([q EXCEPT !.sale = h.sale], 201)
                    ELSE [q EXCEPT !.pc = "insertItem", !.sale = h.sale])
       /\ UNCHANGED <<pos, twin, impl, user, now, last, ops>>

\* await db.insert(saleItems).values({ ...item, saleId: sale.id })
DbInsertSaleItem(r) ==
    LET q == reqs[r]
        ins == DatabaseStorage_insertSaleItem(Store, q.sale, q.items[q.i])
    IN /\ q.pc = "insertItem"
       /\ Commit(ins.st)
       /\ SetReq(r, IF ins.ok THEN [q EXCEPT !.pc = "getProduct"] ELSE Done(q, 400))
       /\ UNCHANGED <<pos, twin, impl, user, now, last, ops>>

\* const product = await this.getProduct(item.productId)
DbGetProduct(r) ==
    LET q == reqs[r]
        product == DatabaseStorage_getProduct(Store, q.items[q.i].productId)
    IN /\ q.pc = "getProduct"
       /\ SetReq(r, IF DatabaseStorage_createSale_tracked(product)
                    THEN [q EXCEPT !.pc = "setQuantity", !.product = product]
                    ELSE DbNext([q EXCEPT !.product = product]))
       /\ UNCHANGED <<pos, twin, impl, user, now, last, ops>>
       /\ UNCHANGED storeVars

\* await db.update(products).set({ quantity: newQuantity }).where(...)
DbSetQuantity(r) ==
    LET q == reqs[r]
        item == q.items[q.i]
    IN /\ q.pc = "setQuantity"
       /\ Commit(DatabaseStorage_setQuantity(Store, item.productId,
                     DatabaseStorage_createSale_newQuantity(q.product, item)))
       /\ SetReq(r, [q EXCEPT !.pc = "insertMovement"])
       /\ UNCHANGED <<pos, twin, impl, user, now, last, ops>>

\* await db.insert(stockMovements).values({ ... })
DbInsertMovement(r) ==
    LET q == reqs[r]
        ins == DatabaseStorage_insertStockMovement(Store,
                   DatabaseStorage_createSale_movement(q.sale, q.items[q.i], q.sale.userId))
    IN /\ q.pc = "insertMovement"
       /\ Commit(ins.st)
       /\ SetReq(r, IF ins.ok THEN DbNext(q) ELSE Done(q, 400))
       /\ UNCHANGED <<pos, twin, impl, user, now, last, ops>>

InitConc ==
    /\ InitStore
    /\ reqs = [r \in Reqs |-> Idle]
    /\ pos = InitPos
    /\ twin = <<>>

TickConc ==
    /\ \E r \in Reqs : reqs[r].pc = "idle"
    /\ Tick

NextConc ==
    \/ \E r \in Reqs : SaleBegin(r)
    \/ \E r \in Reqs : MemSaleResume(r)
    \/ \E r \in Reqs : DbInsertSale(r)
    \/ \E r \in Reqs : DbInsertSaleItem(r)
    \/ \E r \in Reqs : DbGetProduct(r)
    \/ \E r \in Reqs : DbSetQuantity(r)
    \/ \E r \in Reqs : DbInsertMovement(r)
    \/ TickConc

SpecConc == InitConc /\ [][NextConc]_vars

\* --------------------------------------------- receipts handled concurrently
\* Two POST /api/purchase-orders/:id/receive requests in flight.
\* MemStorage.receivePurchaseOrder runs without a break from its status check
\* to the first `await this.updateProductStock(...)`, whose stock update has
\* already happened when the handler is suspended; it resumes at the cost
\* price update.  DatabaseStorage.receivePurchaseOrder is one awaited update.
IdleReceive == [pc |-> "idle", id |-> "none", order |-> <<>>, items |-> <<>>, i |-> 0,
                status |-> 0]

\* The call `this.updateProductStock(item.productId, item.quantity, ...)`.
MemStorage_receivePurchaseOrder_stock(st, order, item, userId) ==
    MemStorage_updateProductStock(st, item.productId, item.quantity, "purchase",
        <<"Purchase Order ", order.orderNumber>>, userId).st

\* The cost price update after the await.
MemStorage_receivePurchaseOrder_cost(st, item) ==
    IF item.productId \in DOMAIN st.products
    THEN [st EXCEPT !.products[item.productId].costPrice = item.unitCost]
    ELSE st

ReceiveBegin(r) ==
    /\ reqs[r].pc = "idle"
    /\ \E id \in OrderIdInputs :
         LET q == [reqs[r] EXCEPT !.id = id]
             found == id \in DOMAIN purchaseOrders /\ purchaseOrders[id].status # "received"
             order == purchaseOrders[id]
             st1 == [Store EXCEPT !.purchaseOrders[id] =
                        With(With(order, "status", "received"), "receivedAt", "now")]
             orderItems == OrderItemsOf(st1, id)
         IN IF ~requireRole({"admin", "manager"}, user)
            THEN /\ SetReq(r, Done(q, 403))
                 /\ UNCHANGED storeVars
            ELSE IF impl = "db"
            THEN /\ SetReq(r, [q EXCEPT !.pc = "dbUpdate"])
                 /\ UNCHANGED storeVars
            ELSE IF ~found
            THEN /\ SetReq(r, Done(q, 404))
                 /\ UNCHANGED storeVars
            ELSE IF Len(orderItems) = 0
            THEN /\ Commit(st1)
                 /\ SetReq(r, Done(q, 200))
            ELSE /\ Commit(MemStorage_receivePurchaseOrder_stock(st1, order,
                                                                 orderItems[1], user))
                 /\ SetReq(r, [q EXCEPT !.pc = "memCost", !.order = order,
                                        !.items = orderItems, !.i = 1])
    /\ UNCHANGED <<pos, twin, impl, user, now, last, ops>>

MemReceiveResume(r) ==
    LET q == reqs[r]
        st1 == MemStorage_receivePurchaseOrder_cost(Store, q.items[q.i])
    IN /\ q.pc = "memCost"
       /\ IF q.i < Len(q.items)
          THEN /\ Commit(MemStorage_receivePurchaseOrder_stock(st1, q.order,
                                                               q.items[q.i + 1], user))
               /\ SetReq(r, [q EXCEPT !.i = q.i + 1])
          ELSE /\ Commit(st1)
               /\ SetReq(r, Done(q, 200))
       /\ UNCHANGED <<pos, twin, impl, user, now, last, ops>>

DbReceiveUpdate(r) ==
    LET q == reqs[r]
        res == DatabaseStorage_receivePurchaseOrder(Store, q.id, user)
    IN /\ q.pc = "dbUpdate"
       /\ Commit(res.st)
       /\ SetReq(r, Done(q, IF res.ok THEN 200 ELSE 404))
       /\ UNCHANGED <<pos, twin, impl, user, now, last, ops>>

InitReceive ==
    /\ InitStore
    /\ reqs = [r \in Reqs |-> IdleReceive]
    /\ pos = InitPos
    /\ twin = <<>>

NextReceive ==
    \/ \E r \in Reqs : ReceiveBegin(r)
    \/ \E r \in Reqs : MemReceiveResume(r)
    \/ \E r \in Reqs : DbReceiveUpdate(r)

SpecReceive == InitReceive /\ [][NextReceive]_vars

\* ============================================================== properties
\* The rows of q from position n + 1 on: what a request appended.
After(q, n) == SubSeq(q, n + 1, Len(q))

MovementsOf(movs, p) == SelectSeq(movs, LAMBDA m : m.productId = p)
LinesOf(items, p) == SelectSeq(items, LAMBDA it : it.productId = p)
Quantities(rows) == [k \in 1..Len(rows) |-> rows[k].quantity]

Tracked(ps) == {p \in DOMAIN ps : ps[p].trackStock}
Untracked(ps) == {p \in DOMAIN ps : ~ps[p].trackStock}

SaleDone == last.route = "POST /api/sales"
HeaderFails == last.input.sale.paymentMethod = Undefined
LineFails(k) ==
    last.input.items[k].saleId = Undefined \/ last.input.items[k].productId = Undefined
SaleParsed ==
    SaleDone /\ ~HeaderFails /\ \A k \in 1..Len(last.input.items) : ~LineFails(k)
ReceiveDone == last.route = "POST /api/purchase-orders/:id/receive"
Refused == last.status \in {400, 403, 404}

\* C1: a tracked product's quantity is its initial quantity plus the sum of
\* the deltas of the stock movements recorded for it.
C1_QuantityIsInitialPlusMovements ==
    \A p \in Tracked(products) :
        products[p].quantity =
            InitQty + SumSeq(Quantities(MovementsOf(stockMovements, p)))

\* C2: after every completed request a tracked product's quantity is not
\* negative.
C2_QuantityNeverNegative ==
    \A p \in Tracked(products) : products[p].quantity >= 0

\* C3: a sale with a line that asks for more units of a tracked product than
\* it has is refused, and leaves the quantity, the stock movements, the sales
\* and the sale items as they were.
C3_OversellRefused ==
    (/\ SaleParsed
     /\ \E k \in 1..Len(last.input.items) :
           LET line == last.input.items[k]
           IN /\ line.productId \in Tracked(last.pre.products)
              /\ line.quantity > last.pre.products[line.productId].quantity)
    => /\ Refused
       /\ products = last.pre.products
       /\ stockMovements = last.pre.stockMovements
       /\ sales = last.pre.sales
       /\ saleItems = last.pre.saleItems

\* C4: a sale with a line on a product that does not exist leaves the whole
\* store as it was before the request.
C4_MissingProductLeavesStore ==
    (/\ SaleParsed
     /\ \E k \in 1..Len(last.input.items) :
           last.input.items[k].productId \notin DOMAIN last.pre.products)
    => Store = last.pre

\* The units of product p a request in flight asks for.
Demand(q, p) == SumSeq(Quantities(LinesOf(q.items, p)))

\* C5: of two concurrent sales on a tracked product whose quantity is enough
\* for either but not for both, at most one succeeds, and the quantity is
\* never negative.
C5_ConcurrentSalesNoOversell ==
    \A p \in Tracked(products) :
        (/\ \A r \in Reqs : reqs[r].pc # "idle" /\ Demand(reqs[r], p) \in 1..InitQty
         /\ Demand(reqs[1], p) + Demand(reqs[2], p) > InitQty)
        => /\ products[p].quantity >= 0
           /\ ~(\A r \in Reqs : reqs[r].pc = "done" /\ reqs[r].status = 201)

\* C6: a successful sale takes, for every line on a tracked product, the
\* line's quantity off the product and appends one 'sale' movement of minus
\* that quantity, with the new sale as reference and the sale's user as actor.
C6_SaleLineLedgerEntry ==
    (SaleDone /\ last.status = 201)
    => \A p \in Tracked(last.pre.products) :
          LET lines == LinesOf(last.input.items, p)
              movs == MovementsOf(After(stockMovements, Len(last.pre.stockMovements)), p)
              sale == sales[Len(sales)]
          IN /\ products[p].quantity =
                    last.pre.products[p].quantity - SumSeq(Quantities(lines))
             /\ Len(movs) = Len(lines)
             /\ \A k \in 1..Len(movs) :
                   /\ movs[k].movementType = "sale"
                   /\ movs[k].quantity = 0 - lines[k].quantity
                   /\ movs[k].reference = sale.id
                   /\ movs[k].userId = sale.userId

\* C7: a sale line on an untracked product persists the sale item, leaves the
\* product's quantity alone and appends no movement for it.
C7_UntrackedLineNoStockEffect ==
    (SaleDone /\ last.status = 201)
    => \A p \in Untracked(last.pre.products) :
          LinesOf(last.input.items, p) # <<>>
          => /\ products[p].quantity = last.pre.products[p].quantity
             /\ MovementsOf(stockMovements, p) = MovementsOf(last.pre.stockMovements, p)
             /\ Len(LinesOf(After(saleItems, Len(last.pre.saleItems)), p))
                    = Len(LinesOf(last.input.items, p))

SalesOf(c) == SelectSeq(sales, LAMBDA sale : sale.customerId = c)

\* C8: a customer's totalSpent is its initial value plus the totals of the
\* sales attached to it, and its loyaltyPoints the initial value plus the
\* whole units of those totals.
C8_CustomerAggregates ==
    \A c \in DOMAIN customers :
        LET totals == [k \in 1..Len(SalesOf(c)) |-> SalesOf(c)[k].total]
            points == [k \in 1..Len(totals) |-> totals[k] \div 100]
        IN /\ customers[c].totalSpent = InitSpent + SumSeq(totals)
           /\ customers[c].loyaltyPoints = InitPoints + SumSeq(points)

\* The 'purchase' movements a receipt of order o writes carry its number.
ReceiptMovements(o, p) ==
    SelectSeq(stockMovements,
              LAMBDA m : /\ m.movementType = "purchase"
                         /\ m.productId = p
                         /\ m.reason = <<"Purchase Order ", purchaseOrders[o].orderNumber>>)

\* C9: receiving an order that is already 'received' is refused and changes
\* no quantity, cost price or stock movement; and no order line is added to
\* stock more than once.
C9_ReceiveOnlyOnce ==
    /\ (/\ ReceiveDone
        /\ last.input \in DOMAIN last.pre.purchaseOrders
        /\ last.pre.purchaseOrders[last.input].status = "received"
        /\ requireRole({"admin", "manager"}, user))
       => /\ Refused
          /\ products = last.pre.products
          /\ stockMovements = last.pre.stockMovements
    /\ \A o \in DOMAIN purchaseOrders : \A p \in DOMAIN products :
          Len(ReceiptMovements(o, p)) <= Len(LinesOf(OrderItemsOf(Store, o), p))

\* C10: an order's status changes only from 'pending', and only to 'received'
\* or 'cancelled'; a receipt succeeds only on an existing 'pending' order.
C10_OrderStatusMachine ==
    /\ (ReceiveDone /\ last.status = 200)
       => /\ last.input \in DOMAIN last.pre.purchaseOrders
          /\ last.pre.purchaseOrders[last.input].status = "pending"
    /\ last.route # "none"
       => \A o \in DOMAIN last.pre.purchaseOrders :
             purchaseOrders[o].status # last.pre.purchaseOrders[o].status
             => /\ last.pre.purchaseOrders[o].status = "pending"
                /\ purchaseOrders[o].status \in {"received", "cancelled"}

ReturnDone == last.route = "POST /api/returns"
AdjustDone == last.route = "POST /api/products/:id/adjust-stock"

\* The rows a request appended to the stock movements, for product p.
NewMovementsOf(p) ==
    MovementsOf(After(stockMovements, Len(last.pre.stockMovements)), p)

\* C11: a successful receipt of a pending order adds, for every product, the
\* quantities of the order's lines on it, appends one 'purchase' movement of
\* plus the quantity per line, sets the cost price to the line's unit cost,
\* and leaves the order 'received' with a receivedAt timestamp.
C11_ReceiveRestocks ==
    (/\ ReceiveDone /\ last.status = 200
     /\ last.input \in DOMAIN last.pre.purchaseOrders
     /\ last.pre.purchaseOrders[last.input].status = "pending")
    => /\ purchaseOrders[last.input].status = "received"
       /\ purchaseOrders[last.input].receivedAt # Null
       /\ \A p \in DOMAIN last.pre.products :
             LET lines == LinesOf(OrderItemsOf(last.pre, last.input), p)
                 movs == NewMovementsOf(p)
             IN /\ products[p].quantity =
                       last.pre.products[p].quantity + SumSeq(Quantities(lines))
                /\ Len(movs) = Len(lines)
                /\ \A k \in 1..Len(movs) :
                      /\ movs[k].movementType = "purchase"
                      /\ movs[k].quantity = lines[k].quantity
                /\ lines # <<>> => products[p].costPrice = lines[Len(lines)].unitCost

\* C12: a receipt of a pending order with a line on a product that does not
\* exist is refused: the order stays 'pending', and no quantity, cost price
\* or stock movement changes.
C12_ReceiveMissingProductFails ==
    (/\ ReceiveDone
     /\ requireRole({"admin", "manager"}, user)
     /\ last.input \in DOMAIN last.pre.purchaseOrders
     /\ last.pre.purchaseOrders[last.input].status = "pending"
     /\ \E k \in 1..Len(OrderItemsOf(last.pre, last.input)) :
           OrderItemsOf(last.pre, last.input)[k].productId
               \notin DOMAIN last.pre.products)
    => /\ Refused
       /\ purchaseOrders[last.input].status = "pending"
       /\ products = last.pre.products
       /\ stockMovements = last.pre.stockMovements

\* C13: a successful return persists one Return row, adds the returned
\* quantity to the product and appends exactly one 'return' movement whose
\* delta is the returned quantity, which is positive.
C13_ReturnRestocks ==
    (ReturnDone /\ last.status = 201)
    => /\ Len(returns) = Len(last.pre.returns) + 1
       /\ LET ret == returns[Len(returns)]
              p == ret.productId
          IN /\ p \in DOMAIN last.pre.products
             /\ products[p].quantity = last.pre.products[p].quantity + ret.quantity
             /\ Len(NewMovementsOf(p)) = 1
             /\ NewMovementsOf(p)[1].movementType = "return"
             /\ NewMovementsOf(p)[1].quantity = ret.quantity
             /\ ret.quantity > 0

\* C14: a return whose product or sale does not exist is refused and persists
\* no Return row; and every persisted Return row has a 'return' movement for
\* the same product and quantity.
C14_ReturnAllOrNothing ==
    /\ (/\ ReturnDone
        /\ insertReturnSchema_ok(last.input)
        /\ \/ last.input.productId \notin DOMAIN last.pre.products
           \/ \A k \in 1..Len(last.pre.sales) : last.pre.sales[k].id # last.input.saleId)
       => /\ Refused
          /\ returns = last.pre.returns
    /\ \A k \in 1..Len(returns) :
          \E m \in 1..Len(stockMovements) :
             /\ stockMovements[m].movementType = "return"
             /\ stockMovements[m].productId = returns[k].productId
             /\ stockMovements[m].quantity = returns[k].quantity

\* C15: a stock adjustment of an existing product sets the quantity to the
\* previous quantity plus the delta and appends one 'adjustment' movement with
\* that delta, the reason and the acting user; on a product that does not
\* exist it answers 404 and writes nothing.
C15_AdjustIsDelta ==
    (/\ AdjustDone
     /\ requireRole({"admin", "manager"}, user)
     /\ last.input.body.typeofQuantity = "number")
    => IF last.input.id \in DOMAIN last.pre.products
       THEN /\ products[last.input.id].quantity =
                   last.pre.products[last.input.id].quantity + last.input.body.quantity
            /\ Len(stockMovements) = Len(last.pre.stockMovements) + 1
            /\ LET m == stockMovements[Len(stockMovements)]
               IN /\ m.productId = last.input.id
                  /\ m.movementType = "adjustment"
                  /\ m.quantity = last.input.body.quantity
                  /\ m.reason = last.input.body.reason
                  /\ m.userId = user
       ELSE /\ last.status = 404
            /\ Store = last.pre

\* C16: a request changes the quantity of an existing product only together
\* with a stock movement for that product.
C16_QuantityOnlyThroughLedger ==
    last.route # "none"
    => \A p \in DOMAIN last.pre.products \cap DOMAIN products :
          products[p].quantity # last.pre.products[p].quantity
          => NewMovementsOf(p) # <<>>

\* C17: no two persisted sales share an invoice number.
C17_InvoiceNumbersUnique ==
    \A i, j \in 1..Len(sales) :
        i # j => sales[i].invoiceNumber # sales[j].invoiceNumber

\* subtotal + taxAmount - discountAmount = total
Reconciles(sale) == sale.total = sale.subtotal + sale.taxAmount - sale.discountAmount

\* C18: every persisted sale has total = subtotal + taxAmount - discountAmount,
\* and a sale request whose amounts do not reconcile is refused and persists
\* nothing.
C18_TotalReconciles ==
    /\ \A k \in 1..Len(sales) : Reconciles(sales[k])
    /\ (SaleDone /\ ~Reconciles(last.input.sale))
       => /\ Refused
          /\ Store = last.pre

\* C19: a sale request with no line, or with a line of quantity <= 0, is
\* refused and persists nothing; every persisted sale has a sale item and
\* every persisted sale item has a positive quantity.
C19_LinesNonEmptyPositive ==
    /\ (/\ SaleDone
        /\ \/ last.input.items = <<>>
           \/ \E k \in 1..Len(last.input.items) : last.input.items[k].quantity <= 0)
       => /\ Refused
          /\ Store = last.pre
    /\ \A k \in 1..Len(sales) :
          \E i \in 1..Len(saleItems) : saleItems[i].saleId = sales[k].id
    /\ \A i \in 1..Len(saleItems) : saleItems[i].quantity > 0

DeleteRoutes ==
    {"DELETE /api/categories/:id", "DELETE /api/suppliers/:id",
     "DELETE /api/products/:id", "DELETE /api/customers/:id"}

\* C20: a delete request by a caller whose role is not admin does not
\* succeed (it is not answered 204) and deletes nothing.
C20_DeleteRequiresAdmin ==
    (last.route \in DeleteRoutes /\ Role(user) # "admin")
    => /\ last.status # 204
       /\ Store = last.pre

CatalogRoutes ==
    {"POST /api/categories", "PUT /api/categories/:id", "POST /api/suppliers",
     "PUT /api/suppliers/:id", "POST /api/products", "PUT /api/products/:id"}

\* C21: a request by a cashier to create or update a category, a supplier or
\* a product does not succeed (it is answered neither 200 nor 201) and creates
\* or changes nothing.
C21_CatalogRequiresManager ==
    (last.route \in CatalogRoutes /\ Role(user) = "cashier")
    => /\ last.status \notin {200, 201}
       /\ Store = last.pre

\* C22: a request by a cashier to create a sale, create a return or adjust
\* stock is not answered 403.
C22_CashierMaySellReturnAdjust ==
    (/\ last.route \in {"POST /api/sales", "POST /api/returns",
                        "POST /api/products/:id/adjust-stock"}
     /\ Role(user) = "cashier")
    => last.status # 403

\* The tracked products whose quantity is at or below their minimum level.
LowStock(ps) ==
    {p \in DOMAIN ps : ps[p].trackStock /\ ps[p].quantity <= ps[p].minStockLevel}

\* C23: the low-stock list is exactly the tracked products with quantity <=
\* minStockLevel, and the low-stock count of the dashboard metrics is the size
\* of that set.
C23_LowStockIsTrackedAtOrBelowMin ==
    /\ last.route = "GET /api/products/low-stock" => last.json = LowStock(products)
    /\ last.route = "GET /api/dashboard/metrics"
          => last.json.lowStockCount = Cardinality(LowStock(products))

\* The products that have sale items, with what was sold of each.
SoldProducts == {p \in DOMAIN products : LinesOf(saleItems, p) # <<>>}
SoldQuantity(p) == SumSeq(Quantities(LinesOf(saleItems, p)))
SoldRevenue(p) ==
    SumSeq([k \in 1..Len(LinesOf(saleItems, p)) |-> LinesOf(saleItems, p)[k].totalPrice])
FirstSeen(p) ==
    CHOOSE i \in 1..Len(saleItems) :
        /\ saleItems[i].productId = p
        /\ \A j \in 1..(i - 1) : saleItems[j].productId # p

\* Product a ranks before product b: more revenue, or as much and seen first.
RanksBefore(a, b) ==
    \/ SoldRevenue(a) > SoldRevenue(b)
    \/ SoldRevenue(a) = SoldRevenue(b) /\ FirstSeen(a) < FirstSeen(b)

\* C24: topProducts(limit) has one entry per product that has sale items, with
\* the sum of its sold quantities and of its line totals, in descending order
\* of revenue with ties in first-seen order, cut to the first `limit` entries.
C24_TopProductsRanking ==
    last.route = "GET /api/dashboard/top-products"
    => LET r == last.json
           limit == last.input
           n == Cardinality(SoldProducts)
       IN /\ Len(r) = IF limit < n THEN limit ELSE n
          /\ \A i \in 1..Len(r) :
                /\ r[i].product \in SoldProducts
                /\ r[i].totalSold = SoldQuantity(r[i].product)
                /\ r[i].revenue = SoldRevenue(r[i].product)
                /\ \A j \in (i + 1)..Len(r) : RanksBefore(r[i].product, r[j].product)
                /\ \A p \in SoldProducts \ {r[k].product : k \in 1..Len(r)} :
                      RanksBefore(r[i].product, p)

\* The sales created on calendar day d.
SalesOn(d) == SelectSeq(sales, LAMBDA sale : DateKey(sale.createdAt) = d)

\* C25: salesData(days) has `days` entries, one per calendar day in ascending
\* order with today last; each carries the sum of the totals and the count of
\* the sales created on its day (zero for a day without sales).
C25_SalesDataTrailingDays ==
    last.route = "GET /api/dashboard/sales-data"
    => LET r == last.json
           days == last.input
       IN /\ Len(r) = days
          /\ \A k \in 1..Len(r) :
                /\ r[k].date = DateKey(now) - days + k
                /\ r[k].sales =
                       SumSeq([i \in 1..Len(SalesOn(r[k].date)) |-> SalesOn(r[k].date)[i].total])
                /\ r[k].transactions = Len(SalesOn(r[k].date))

\* C26: a POST /api/sales request whose sale header or any of whose lines
\* fails schema validation is answered 400 and writes nothing: no sale, sale
\* item or stock movement is stored and no product quantity or customer
\* aggregate changes.
C26_InvalidSaleWritesNothing ==
    (SaleDone /\ (HeaderFails \/ \E k \in 1..Len(last.input.items) : LineFails(k)))
    => /\ last.status = 400
       /\ Store = last.pre

\* A two-line sale whose first line is valid and in stock and whose second
\* line fails validation has been answered.
C26_Witness ==
    /\ SaleDone
    /\ Len(last.input.items) = 2
    /\ ~HeaderFails
    /\ ~LineFails(1)
    /\ LineFails(2)
    /\ last.pre.products[last.input.items[1].productId].trackStock
    /\ last.pre.products[last.input.items[1].productId].quantity
          >= last.input.items[1].quantity

\* C30: in the POS cart every product id occurs in at most one item, every
\* item has quantity >= 1 and totalPrice = quantity * unitPrice, and the
\* subtotal the page shows is the sum of the items' totalPrice.
C30_CartWellFormed ==
    LET cart == pos.cart
    IN /\ \A j, k \in DOMAIN cart : cart[j].productId = cart[k].productId => j = k
       /\ \A k \in DOMAIN cart :
             /\ cart[k].quantity >= 1
             /\ cart[k].totalPrice = cart[k].quantity * cart[k].unitPrice
       /\ POS_subtotal(cart) =
             SumSeq([k \in DOMAIN cart |-> cart[k].quantity * cart[k].unitPrice])

\* A cart of two products, one of them added more than once.
C30_Witness ==
    /\ Len(pos.cart) = 2
    /\ \E k \in DOMAIN pos.cart : pos.cart[k].quantity >= 2

\* What C27 compares of a store: the product quantities, the customer
\* aggregates, the purchase-order statuses and the multiset of stock movements
\* as (product, type, delta).
MovementKey(m) == <<m.productId, m.movementType, m.quantity>>
MovementBag(movs) ==
    [t \in {MovementKey(movs[k]) : k \in DOMAIN movs} |->
        Cardinality({k \in DOMAIN movs : MovementKey(movs[k]) = t})]
Observable(st) ==
    [quantities |-> [p \in DOMAIN st.products |-> st.products[p].quantity],
     customers |-> st.customers,
     statuses |-> [o \in DOMAIN st.purchaseOrders |-> st.purchaseOrders[o].status],
     movements |-> MovementBag(st.stockMovements)]

\* C27: after the same sequence of updateProductStock, createSale,
\* createReturn and receivePurchaseOrder calls from the same initial data, the
\* in-memory store and the durable store hold the same quantities, customer
\* aggregates, order statuses and stock movements, and the last call returned
\* the same success or failure on both.
C27_StoresInterchangeable ==
    LET m == Observable(twin.mem)
        d == Observable(twin.db)
    IN /\ m.quantities = d.quantities
       /\ m.customers = d.customers
       /\ m.statuses = d.statuses
       /\ m.movements = d.movements
       /\ twin.memOk = twin.dbOk

\* C29: when two interleaved sales that each have a line on the same tracked
\* product have both completed, the product's quantity is its starting
\* quantity minus the quantities of both sales' lines on it.
C29_ConcurrentSalesNoLostUpdate ==
    \A p \in Tracked(products) :
        (\A r \in Reqs : /\ reqs[r].pc = "done"
                         /\ reqs[r].status = 201
                         /\ Demand(reqs[r], p) >= 1)
        => products[p].quantity = InitQty - (Demand(reqs[1], p) + Demand(reqs[2], p))

\* The units order id brings to product p.
Ordered(id, p) == SumSeq(Quantities(LinesOf(OrderItemsOf(Store, id), p)))

\* C28: when two authorised receive requests for the same pending order have
\* both completed, exactly one of them was answered with success and every
\* product holds its starting quantity plus the order's lines on it, once.
C28_ConcurrentReceiveOnce ==
    \A id \in DOMAIN purchaseOrders :
        (/\ requireRole({"admin", "manager"}, user)
         /\ \A r \in Reqs : reqs[r].pc = "done" /\ reqs[r].id = id)
        => /\ Cardinality({r \in Reqs : reqs[r].status = 200}) = 1
           /\ \A p \in DOMAIN products :
                 products[p].quantity = InitQty + Ordered(id, p)

====
